---- MODULE Spec2Model ----
(***************************************************************************)
(* Stale-while-revalidate cache wrapper of modernized_backend/core/cache.py *)
(* in front of a fallible fetch operation (the decorated func), with the    *)
(* Redis store it reads and writes.  One wrapper invocation is a "call";    *)
(* every activation of the inner fetch_and_cache coroutine is a task,       *)
(* either awaited by its call ("fg") or created with asyncio.create_task    *)
(* ("bg").  Steps are the stretches of code between two awaits.             *)
(* Beside it, the consensus price engine of services/prices: fetch_price    *)
(* gathering the providers' get_price, and calculate_consensus_price;       *)
(* the get_price of the two network adapters of services/prices/providers;  *)
(* the cache key the wrapper derives from its arguments; and the cache      *)
(* warming of scripts/seed_cache.py, whose seed_ticker calls run the        *)
(* decorated fetch_stock_price_upstream under a semaphore.                  *)
(***************************************************************************)
EXTENDS Integers, Sequences, FiniteSets, TLC

VARIABLES
    clock,   \* time.time(), in seconds
    ttl,     \* decorator argument ttl
    grace,   \* decorator argument grace_period
    func,    \* the decorated operation
    store,   \* Redis: cache_key -> entry (serialized payload, expiry) or NoEntry
    call,    \* wrapper invocations: position and locals of each
    fac,     \* fetch_and_cache activations: position and locals of each
    providers,  \* PriceFetcher.providers
    pf,      \* the fetch_price activation: position and locals
    ccp,     \* the calculate_consensus_price activation: argument and return
    gp       \* a get_price activation of each network adapter: upstream and return

cacheVars == <<clock, ttl, grace, func, store, call, fac>>

priceVars == <<providers, pf, ccp>>

vars == <<cacheVars, priceVars, gp>>

-----------------------------------------------------------------------------
(* Bounds of the model *)

NumCalls == 2
MaxClock == 2
MaxTtl   == 1
MaxGrace == 1
MaxPrice == 1
MaxWaits == 1
MaxProviders == 5
MaxArgs == 2
NumTargets == 6

(* Program constants *)

UpstreamTtl   == 60
UpstreamGrace == 3600
SafetyMargin  == 60

-----------------------------------------------------------------------------
Calls   == 1..NumCalls
Modes   == {"fg", "bg"}
Tasks   == Calls \X Modes
Tickers == {"AAPL"}
Prices  == 1..MaxPrice

(* Python values the wrapped operation can return *)
None    == [kind |-> "None", price |-> 0]
Data(p) == [kind |-> "data", price |-> p]

NoEntry == [kind |-> "absent", data |-> <<>>, exp |-> 0]
NoData  == [kind |-> "None", ts |-> 0, value |-> None]
Tuple(p) == [kind |-> "tuple", ts |-> p[1], value |-> p[2]]

(* The decorated operations: fetch_stock_price_upstream with its decorator *)
(* arguments, and an arbitrary fallible func with small ttl/grace_period.  *)
Decorated ==
    {[func |-> "fetch_stock_price_upstream", ttl |-> UpstreamTtl, grace |-> UpstreamGrace]}
    \cup {[func |-> "func", ttl |-> t, grace |-> g] : t \in 0..MaxTtl, g \in 0..MaxGrace}

(* fetch_stock_price_upstream: what yfinance did -> what the function returns. *)
(* It catches every exception and returns None; a missing price is None too.   *)
YfOutcomes == {[kind |-> "exception", price |-> 0], [kind |-> "no_price", price |-> 0]}
              \cup {[kind |-> "price", price |-> p] : p \in Prices}

fetch_stock_price_upstream(y) ==
    IF y.kind = "price" THEN [kind |-> "return", value |-> Data(y.price)]
    ELSE [kind |-> "return", value |-> None]

(* Outcomes of one execution of the decorated operation *)
FuncOutcomes(f) ==
    IF f = "fetch_stock_price_upstream"
    THEN {fetch_stock_price_upstream(y) : y \in YfOutcomes}
    ELSE {[kind |-> "raise", value |-> None], [kind |-> "return", value |-> None]}
         \cup {[kind |-> "return", value |-> Data(p)] : p \in Prices}

-----------------------------------------------------------------------------
(* Cache key, serialization, Redis *)

(* repr() of a str without quotes in it, and ", ".join *)
Repr(v) == "'" \o v \o "'"

RECURSIVE Join(_, _)
Join(strs, sep) ==
    IF strs = <<>> THEN ""
    ELSE IF Len(strs) = 1 THEN strs[1]
    ELSE strs[1] \o sep \o Join(Tail(strs), sep)

(* str(args): the tuple of the positional arguments, ('AAPL',) for one *)
StrArgs(args) ==
    IF Len(args) = 1 THEN "(" \o Repr(args[1]) \o ",)"
    ELSE "(" \o Join([i \in DOMAIN args |-> Repr(args[i])], ", ") \o ")"

(* str(kwargs): the dict of the named arguments, its items in the order *)
(* the call wrote them                                                  *)
StrKwargs(kwargs) ==
    "{" \o Join([i \in DOMAIN kwargs |-> Repr(kwargs[i][1]) \o ": " \o Repr(kwargs[i][2])],
                ", ") \o "}"

(* func.__module__ *)
Module(f) ==
    IF f = "fetch_stock_price_upstream" THEN "modernized_backend.services.market_data"
    ELSE "__main__"

(* hashlib.sha256(...).hexdigest(): no two contents met share a digest *)
Sha256(content) == "sha256(" \o content \o ")"

CacheKey(f, args, kwargs) ==
    LET key_content == Module(f) \o ":" \o f \o ":" \o StrArgs(args) \o ":" \o StrKwargs(kwargs)
        key_hash == Sha256(key_content)
    IN  "swr_cache:" \o key_hash

(* the keys of the calls made with the ticker alone, as seed_cache.py *)
(* makes them                                                        *)
Keys == {CacheKey(func, <<t>>, <<>>) : t \in Tickers}

(* variant: the payload carries the time the entry stops being fresh *)
SerializeFreshUntil(payload) == [enc |-> "b64pickle", ts |-> payload[1] + ttl, value |-> payload[2]]

Serialize(payload) == [enc |-> "b64pickle", ts |-> payload[1], value |-> payload[2]]

Deserialize(s) == <<s.ts, s.value>>

(* variant: the store-level expiry forgets the grace period *)
ExpireTimeNoGrace == ttl + SafetyMargin

ExpireTime == ttl + grace + SafetyMargin

(* redis_client.get: the stored string, or absent once the key has expired *)
RedisGet(k) ==
    IF store[k].kind = "entry" /\ clock < store[k].exp THEN store[k] ELSE NoEntry

(* redis_client.set(cache_key, serialized, ex=expire_time) *)
RedisSet(k, serialized, ex) ==
    [store EXCEPT ![k] = [kind |-> "entry", data |-> serialized, exp |-> clock + ex]]

-----------------------------------------------------------------------------
(***************************************************************************)
(* Consensus price engine: services/prices/providers.py and fetcher.py.    *)
(* A float is a rational num/den in lowest terms, or NaN.                  *)
(***************************************************************************)
Float(n, d) == [kind |-> "float", num |-> n, den |-> d]

NaN == [kind |-> "nan", num |-> 0, den |-> 1]

RECURSIVE GCD(_, _)
GCD(a, b) == IF b = 0 THEN a ELSE GCD(b, a % b)

(* n / d as a float, for n >= 0 and d > 0 *)
Div(n, d) == IF n = 0 THEN Float(0, 1) ELSE Float(n \div GCD(n, d), d \div GCD(n, d))

(* the finite prices of the lists handed to calculate_consensus_price and *)
(* of the built-in providers, and the floats they make                    *)
Quotes == {99, 100, 101, 200, 1000}

Readings == {Float(q, 1) : q \in Quotes} \cup {NaN}

(* prices in tenths, which no binary float holds exactly *)
DecimalReadings == {Div(1, 10), Div(2, 10)}

(* the prices of the other providers, which come five at a time *)
UpstreamQuotes == {100, 101, 1000}

UpstreamReadings == {Float(q, 1) : q \in UpstreamQuotes} \cup {NaN}

(* MockProvider: base_price + random.uniform(-5, 5) *)
MockQuotes == {145, 155}

YahooProvider == [cls |-> "YahooProvider", name |-> "Yahoo Finance"]

AlphaVantageProvider == [cls |-> "AlphaVantageProvider", name |-> "AlphaVantage"]

MockProvider == [cls |-> "MockProvider", name |-> "Mock Provider"]

(* any other implementation of the abstract PriceProvider *)
PriceProvider(i) == [cls |-> "PriceProvider", name |-> "Provider " \o ToString(i)]

(* PriceFetcher.__init__: the given list, or the three built-in providers *)
DefaultProviders == <<YahooProvider, AlphaVantageProvider, MockProvider>>

ProviderLists ==
    {DefaultProviders} \cup
    {[i \in 1..n |-> PriceProvider(i - 1)] : n \in 1..MaxProviders}

Exception == [kind |-> "exception", num |-> 0, den |-> 1]

Pending == [kind |-> "pending", num |-> 0, den |-> 1]

Hung == [kind |-> "hung", num |-> 0, den |-> 1]

(* how a coroutine ends *)
Returns(v) == [kind |-> "return", value |-> v]

Raises == [kind |-> "raise", value |-> None]

(* what yfinance does for a ticker: Ticker, fast_info or history raises;  *)
(* fast_info.last_price is a float or None; or, on an object with no      *)
(* fast_info, history is empty or ends with a Close                       *)
YahooUpstreams ==
    {[kind |-> "raises", price |-> None], [kind |-> "history_empty", price |-> None]}
    \cup {[kind |-> "fast_info", price |-> p] : p \in Readings \cup {None}}
    \cup {[kind |-> "history", price |-> p] : p \in Readings}

(* the inner _fetch, run by asyncio.to_thread *)
YahooFetch(upstream) ==
    CASE upstream.kind = "raises" -> Raises
      [] upstream.kind = "fast_info" -> Returns(upstream.price)
      [] upstream.kind = "history_empty" -> Returns(None)
      [] OTHER -> Returns(upstream.price)

(* YahooProvider.get_price: except Exception: log, return None *)
YahooProvider_get_price(upstream) ==
    LET price == YahooFetch(upstream)
    IN  IF price.kind = "raise" THEN Returns(None) ELSE price

(* the text under "05. price": digits, "nan", other letters, or "" *)
Text(kind, n) == [kind |-> kind, num |-> n]

NoText == Text("None", 0)

PriceTexts ==
    {Text("digits", q) : q \in Quotes} \cup {Text("nan", 0), Text("letters", 0), Text("empty", 0)}

(* float(price_str) *)
ParseFloat(price_str) ==
    CASE price_str.kind = "digits" -> Returns(Float(price_str.num, 1))
      [] price_str.kind = "nan" -> Returns(NaN)
      [] OTHER -> Raises

(* the "Global Quote" of a payload: no such key, null, or an object with *)
(* or without "05. price"                                                *)
GlobalQuotes ==
    {[kind |-> "missing", price_str |-> NoText], [kind |-> "null", price_str |-> NoText]}
    \cup {[kind |-> "object", price_str |-> t] : t \in PriceTexts \cup {NoText}}

NotJson == [kind |-> "not_json", note |-> FALSE, quote |-> [kind |-> "missing", price_str |-> NoText]]

(* what the HTTP request meets: no answer, an error status, a body that *)
(* is not JSON, or a JSON object with or without "Note"                 *)
AlphaVantageResponses ==
    {[kind |-> "error", status |-> 0, body |-> NotJson]}
    \cup {[kind |-> "response", status |-> c, body |-> NotJson] : c \in {200, 429, 500}}
    \cup {[kind |-> "response", status |-> 200,
           body |-> [kind |-> "json", note |-> n, quote |-> q]] :
              n \in BOOLEAN, q \in GlobalQuotes}

(* variant: the rate-limit note is not looked at *)
RateLimitedIgnored(data) == FALSE

(* "Note" in data *)
RateLimited(data) == data.note

(* the body of the try: request, raise_for_status, json, note, quote *)
AlphaVantageTry(response) ==
    IF response.kind = "error" THEN Raises
    ELSE IF response.status >= 400 THEN Raises
    ELSE IF response.body.kind = "not_json" THEN Raises
    ELSE LET data == response.body
             quote == data.quote
             price_str == IF quote.kind = "object" THEN quote.price_str ELSE NoText
         IN  IF RateLimited(data) THEN Returns(None)
             ELSE IF quote.kind = "null" THEN Raises
             ELSE IF price_str.kind \in {"None", "empty"} THEN Returns(None)
             ELSE ParseFloat(price_str)

(* variant: the failure of the request or of the parsing is not caught *)
AlphaVantageProvider_get_price_uncaught(response) == AlphaVantageTry(response)

(* AlphaVantageProvider.get_price: except Exception: log, return None *)
AlphaVantageProvider_get_price(response) ==
    LET price == AlphaVantageTry(response)
    IN  IF price.kind = "raise" THEN Returns(None) ELSE price

(* what gather(return_exceptions=True) keeps of a coroutine *)
Result(outcome) == IF outcome.kind = "raise" THEN Exception ELSE outcome.value

(* what one get_price can complete with: the built-in providers catch every *)
(* Exception and return None; the abstract contract allows a raise          *)
GetPrice(provider) ==
    CASE provider.cls = "YahooProvider" ->
           {Result(YahooProvider_get_price(y)) : y \in YahooUpstreams}
      [] provider.cls = "AlphaVantageProvider" ->
           {Result(AlphaVantageProvider_get_price(r)) : r \in AlphaVantageResponses}
      [] provider.cls = "MockProvider" -> {Float(q, 1) : q \in MockQuotes}
      [] OTHER -> UpstreamReadings \cup {None, Exception}

(* a get_price that nothing bounds in time: the yfinance call in a thread  *)
(* (to_thread cannot be cancelled and no timeout is passed), or whatever  *)
(* an implementation of the abstract get_price awaits.  httpx gives up    *)
(* after 5 s of silence by default (AlphaVantageProvider then returns     *)
(* None), MockProvider only sleeps 0.1 s.                                 *)
NoTimeout(provider) == provider.cls \in {"YahooProvider", "PriceProvider"}

IdleFetch == [pc |-> "idle", results |-> <<>>, valid_prices |-> <<>>,
              valid_indices |-> <<>>, suspects |-> <<>>, ret |-> None]

IdleConsensus == [pc |-> "idle", prices |-> <<>>, above |-> {}, ret |-> <<None, <<>>>>]

Adapters == {"YahooProvider", "AlphaVantageProvider"}

IdleGetPrice == [a \in Adapters |-> [pc |-> "idle", upstream |-> None, ret |-> None]]

IdleCall == [pc |-> "idle", args |-> <<>>, kwargs |-> <<>>, now |-> 0, ret |-> None]

IdleTask == [pc |-> "idle", result |-> None, timestamp |-> 0]

(* Redis outlives the process: a key is absent, or holds what a completed *)
(* fetch_and_cache of an earlier run wrote at time 0.                    *)
WarmEntries(f, t, g) ==
    {NoEntry} \cup
    {[kind |-> "entry", data |-> Serialize(<<0, o.value>>), exp |-> t + g + SafetyMargin] :
        o \in {r \in FuncOutcomes(f) : r.kind = "return"}}

Init ==
    /\ clock = 0
    /\ \E d \in Decorated : func = d.func /\ ttl = d.ttl /\ grace = d.grace
    /\ store \in [Keys -> WarmEntries(func, ttl, grace)]
    /\ call = [i \in Calls |-> IdleCall]
    /\ fac = [t \in Tasks |-> IdleTask]
    /\ providers = DefaultProviders
    /\ pf = IdleFetch
    /\ ccp = IdleConsensus
    /\ gp = IdleGetPrice

KeyOf(i) == CacheKey(func, call[i].args, call[i].kwargs)

-----------------------------------------------------------------------------
(* The wrapper's logic flow, cache.py lines 70-88.  The locals of a call *)
(* are gone once it has returned or raised.                             *)

(* variant: now taken in milliseconds against a timestamp in seconds *)
AgeMillis(now, cached_ts) == (now - cached_ts) * 1000

Age(now, cached_ts) == now - cached_ts

(* variant: an entry of age exactly ttl still counts as fresh *)
IsFreshInclusive(age) == age <= ttl

IsFresh(age) == age < ttl

(* variant: an entry of age exactly ttl + grace_period is still served *)
IsStaleInclusive(age) == age <= (ttl + grace)

(* evaluated only after IsFresh has failed *)
IsStale(age) == age < (ttl + grace)

(* variant: a miss also schedules a refresh *)
MissAlsoRefreshing(i) ==
    /\ call' = [call EXCEPT ![i].pc = "await"]
    /\ fac' = [fac EXCEPT ![<<i, "fg">>].pc = "func", ![<<i, "bg">>].pc = "func"]

(* Miss or Expired: return await fetch_and_cache() *)
Miss(i) ==
    /\ call' = [call EXCEPT ![i].pc = "await"]
    /\ fac' = [fac EXCEPT ![<<i, "fg">>].pc = "func"]

(* variant: a fresh hit also starts a refresh *)
FreshHitRefreshing(i, cached_data) ==
    /\ call' = [call EXCEPT ![i] = [@ EXCEPT !.pc = "returned", !.now = 0,
                                             !.ret = cached_data.value]]
    /\ fac' = [fac EXCEPT ![<<i, "bg">>].pc = "func"]

(* Hit (Fresh): return value *)
FreshHit(i, cached_data) ==
    /\ call' = [call EXCEPT ![i] = [@ EXCEPT !.pc = "returned", !.now = 0,
                                             !.ret = cached_data.value]]
    /\ fac' = fac

(* variant: the stale branch awaits the refresh instead of creating a task *)
StaleHitAwaited(i, cached_data) == Miss(i)

(* variant: no refresh is scheduled while one runs for the same key *)
StaleHitSingleFlight(i, cached_data) ==
    /\ call' = [call EXCEPT ![i] = [@ EXCEPT !.pc = "returned", !.now = 0,
                                             !.ret = cached_data.value]]
    /\ fac' = IF \E j \in DOMAIN call :
                    /\ j # i
                    /\ call[j].args = call[i].args /\ call[j].kwargs = call[i].kwargs
                    /\ fac[<<j, "bg">>].pc \in {"func", "set"}
              THEN fac
              ELSE [fac EXCEPT ![<<i, "bg">>].pc = "func"]

(* Hit (Stale): asyncio.create_task(fetch_and_cache()); return value *)
StaleHit(i, cached_data) ==
    /\ call' = [call EXCEPT ![i] = [@ EXCEPT !.pc = "returned", !.now = 0,
                                             !.ret = cached_data.value]]
    /\ fac' = [fac EXCEPT ![<<i, "bg">>].pc = "func"]

LogicFlow(i, cached_data) ==
    IF cached_data.kind = "tuple"
    THEN LET age == Age(call[i].now, cached_data.ts)
         IN  IF IsFresh(age) THEN FreshHit(i, cached_data)
             ELSE IF IsStale(age) THEN StaleHit(i, cached_data)
             ELSE Miss(i)
    ELSE Miss(i)

-----------------------------------------------------------------------------
(* Actions *)

(* a second passes; seconds are counted up to MaxClock after each long wait *)
Tick ==
    /\ clock % SafetyMargin < MaxClock
    /\ clock' = clock + 1
    /\ UNCHANGED <<priceVars, gp, ttl, grace, func, store, call, fac>>

(* a long wait: as many seconds pass as the store keeps an entry beyond *)
(* its grace window                                                     *)
Wait ==
    /\ clock \div SafetyMargin < MaxWaits
    /\ clock' = clock + SafetyMargin
    /\ UNCHANGED <<priceVars, gp, ttl, grace, func, store, call, fac>>

(* wrapper entered with *args and **kwargs: key computed, now = *)
(* time.time(), redis get issued                               *)
Wrapper(i, args, kwargs) ==
    /\ call[i].pc = "idle"
    /\ i > 1 => call[i - 1].pc # "idle"
    /\ call' = [call EXCEPT ![i] = [@ EXCEPT !.pc = "get", !.args = args,
                                             !.kwargs = kwargs, !.now = clock]]
    /\ UNCHANGED <<priceVars, gp, clock, ttl, grace, func, store, fac>>

(* fetch_stock_price_upstream(ticker): the call of seed_cache.py *)
Call(i, ticker) == Wrapper(i, <<ticker>>, <<>>)

(* redis get answered and the entry, if any, decoded *)
GetOk(i) ==
    /\ call[i].pc = "get"
    /\ LET cached_str == RedisGet(KeyOf(i))
       IN  LogicFlow(i, IF cached_str.kind = "entry"
                        THEN Tuple(Deserialize(cached_str.data))
                        ELSE NoData)
    /\ UNCHANGED <<priceVars, gp, clock, ttl, grace, func, store>>

(* variant: the wrapper has no try/except around the read *)
GetFailedRaising(i, err) ==
    /\ call[i].pc = "get"
    /\ err = "decode" => RedisGet(KeyOf(i)).kind = "entry"
    /\ call' = [call EXCEPT ![i] = [@ EXCEPT !.pc = "raised", !.now = 0]]
    /\ UNCHANGED <<priceVars, gp, clock, ttl, grace, func, store, fac>>

(* redis get raised, or pickle/base64 decoding of the entry raised: *)
(* cached_data stays None                                           *)
GetFailed(i, err) ==
    /\ call[i].pc = "get"
    /\ err = "decode" => RedisGet(KeyOf(i)).kind = "entry"
    /\ LogicFlow(i, NoData)
    /\ UNCHANGED <<priceVars, gp, clock, ttl, grace, func, store>>

(* what the awaiting wrapper does when its fetch_and_cache returns *)
Return(i, m, result) ==
    IF m = "fg"
    THEN call' = [call EXCEPT ![i] = [@ EXCEPT !.pc = "returned", !.now = 0,
                                               !.ret = result]]
    ELSE call' = call

(* variant: the wrapper catches the failure of func and returns None *)
PropagateSwallowed(i, m) ==
    IF m = "fg"
    THEN call' = [call EXCEPT ![i] = [@ EXCEPT !.pc = "returned", !.now = 0,
                                               !.ret = None]]
    ELSE call' = call

(* what the awaiting wrapper does when its fetch_and_cache raises; *)
(* the exception of a background task is never retrieved           *)
Propagate(i, m) ==
    IF m = "fg"
    THEN call' = [call EXCEPT ![i] = [@ EXCEPT !.pc = "raised", !.now = 0]]
    ELSE call' = call

(* func returned: timestamp taken, payload serialized, redis set issued *)
FuncReturn(i, m, o) ==
    /\ fac[<<i, m>>].pc = "func"
    /\ o \in FuncOutcomes(func)
    /\ o.kind = "return"
    /\ fac' = [fac EXCEPT ![<<i, m>>] = [pc |-> "set", result |-> o.value,
                                         timestamp |-> clock]]
    /\ UNCHANGED <<priceVars, gp, clock, ttl, grace, func, store, call>>

(* variant: a failed fetch drops the entry of its key *)
FuncRaiseEvicting(i, m) ==
    /\ fac[<<i, m>>].pc = "func"
    /\ \E o \in FuncOutcomes(func) : o.kind = "raise"
    /\ fac' = [fac EXCEPT ![<<i, m>>].pc = "raised"]
    /\ Propagate(i, m)
    /\ store' = [store EXCEPT ![KeyOf(i)] = NoEntry]
    /\ UNCHANGED <<priceVars, gp, clock, ttl, grace, func>>

(* func raised: fetch_and_cache re-raises *)
FuncRaise(i, m) ==
    /\ fac[<<i, m>>].pc = "func"
    /\ \E o \in FuncOutcomes(func) : o.kind = "raise"
    /\ fac' = [fac EXCEPT ![<<i, m>>].pc = "raised"]
    /\ Propagate(i, m)
    /\ UNCHANGED <<priceVars, gp, clock, ttl, grace, func, store>>

(* variant: an entry with a later timestamp is left in place *)
SetOkNewerWins(i, m) ==
    /\ fac[<<i, m>>].pc = "set"
    /\ store' = IF /\ store[KeyOf(i)].kind = "entry"
                   /\ store[KeyOf(i)].data.ts > fac[<<i, m>>].timestamp
                THEN store
                ELSE RedisSet(KeyOf(i),
                              Serialize(<<fac[<<i, m>>].timestamp, fac[<<i, m>>].result>>),
                              ExpireTime)
    /\ fac' = [fac EXCEPT ![<<i, m>>] = [@ EXCEPT !.pc = "done", !.result = None]]
    /\ Return(i, m, fac[<<i, m>>].result)
    /\ UNCHANGED <<priceVars, gp, clock, ttl, grace, func>>

(* redis set succeeded; fetch_and_cache returns result.  A finished task *)
(* keeps the timestamp it took, as the record of what it wrote.          *)
SetOk(i, m) ==
    /\ fac[<<i, m>>].pc = "set"
    /\ store' = RedisSet(KeyOf(i),
                         Serialize(<<fac[<<i, m>>].timestamp, fac[<<i, m>>].result>>),
                         ExpireTime)
    /\ fac' = [fac EXCEPT ![<<i, m>>] = [@ EXCEPT !.pc = "done", !.result = None]]
    /\ Return(i, m, fac[<<i, m>>].result)
    /\ UNCHANGED <<priceVars, gp, clock, ttl, grace, func>>

(* serialization or redis set raised: fetch_and_cache still returns result *)
SetFailed(i, m) ==
    /\ fac[<<i, m>>].pc = "set"
    /\ fac' = [fac EXCEPT ![<<i, m>>] = [@ EXCEPT !.pc = "done", !.result = None]]
    /\ Return(i, m, fac[<<i, m>>].result)
    /\ UNCHANGED <<priceVars, gp, clock, ttl, grace, func, store>>

Next ==
    \/ Tick
    \/ Wait
    \/ \E i \in Calls, t \in Tickers : Call(i, t)
    \/ \E i \in Calls : GetOk(i)
    \/ \E i \in Calls, err \in {"connection", "decode"} : GetFailed(i, err)
    \/ \E i \in Calls, m \in Modes, o \in FuncOutcomes(func) : FuncReturn(i, m, o)
    \/ \E i \in Calls, m \in Modes : FuncRaise(i, m)
    \/ \E i \in Calls, m \in Modes : SetOk(i, m)
    \/ \E i \in Calls, m \in Modes : SetFailed(i, m)

Spec == Init /\ [][Next]_vars

(* The same program while Redis answers every get and set *)
NextWorkingStore ==
    \/ Tick
    \/ Wait
    \/ \E i \in Calls, t \in Tickers : Call(i, t)
    \/ \E i \in Calls : GetOk(i)
    \/ \E i \in Calls, m \in Modes, o \in FuncOutcomes(func) : FuncReturn(i, m, o)
    \/ \E i \in Calls, m \in Modes : FuncRaise(i, m)
    \/ \E i \in Calls, m \in Modes : SetOk(i, m)

SpecWorkingStore == Init /\ [][NextWorkingStore]_vars

(* Cache warming, scripts/seed_cache.py: one seed_ticker per target, each  *)
(* calling fetch_stock_price_upstream inside "async with sem", while Redis *)
(* answers.  Call i is the call of seed_ticker i; the semaphore is held by *)
(* the seed_tickers that are inside their call.                            *)
SemaphoreValue == 5

target_tickers == [i \in 1..NumTargets |-> "T" \o ToString(i)]

Holding == {i \in DOMAIN call : call[i].pc \in {"get", "await"}}

(* async with sem: entered when the semaphore is not exhausted; the call *)
(* of the decorated function follows without a suspension               *)
SeedTicker(i) ==
    /\ Cardinality(Holding) < SemaphoreValue
    /\ Call(i, target_tickers[i])

(* what seed_ticker returns once its call has returned or raised; the *)
(* semaphore is released in the same step                            *)
seed_ticker(i) == call[i].pc = "returned" /\ call[i].ret # None

(* the script is run a minute after entries were written, or on an empty *)
(* store                                                                 *)
InitSeed ==
    /\ clock = UpstreamTtl
    /\ func = "fetch_stock_price_upstream"
    /\ ttl = UpstreamTtl
    /\ grace = UpstreamGrace
    /\ \E e \in WarmEntries(func, ttl, grace) :
          store = [k \in {CacheKey(func, <<target_tickers[i]>>, <<>>) : i \in 1..NumTargets} |-> e]
    /\ call = [i \in 1..NumTargets |-> IdleCall]
    /\ fac = [t \in (1..NumTargets) \X Modes |-> IdleTask]
    /\ providers = DefaultProviders
    /\ pf = IdleFetch
    /\ ccp = IdleConsensus
    /\ gp = IdleGetPrice

NextSeed ==
    \/ \E i \in 1..NumTargets : SeedTicker(i)
    \/ \E i \in 1..NumTargets : GetOk(i)
    \/ \E i \in 1..NumTargets, m \in Modes, o \in FuncOutcomes(func) : FuncReturn(i, m, o)
    \/ \E i \in 1..NumTargets, m \in Modes : SetOk(i, m)

SpecSeed == InitSeed /\ [][NextSeed]_vars

(* The wrapper entered with any positional and named arguments: the calls *)
(* a decorated func of up to MaxArgs parameters can receive.              *)
ArgValues == {"AAPL", "MSFT"}

ArgNames == {"ticker", "period"}

PositionalArgs == UNION {[1..n -> ArgValues] : n \in 0..MaxArgs}

(* the named arguments in the order of the call: no name twice *)
NamedArgs ==
    {kw \in UNION {[1..n -> ArgNames \X ArgValues] : n \in 0..MaxArgs} :
        \A i, j \in DOMAIN kw : i # j => kw[i][1] # kw[j][1]}

NextKeys ==
    \E i \in Calls, args \in PositionalArgs, kwargs \in NamedArgs :
        /\ Len(args) + Len(kwargs) <= MaxArgs
        /\ Wrapper(i, args, kwargs)

SpecKeys == Init /\ [][NextKeys]_vars

-----------------------------------------------------------------------------
(* calculate_consensus_price, fetcher.py lines 10-50.  pandas skips NaN in *)
(* mean() and std(); std() divides by count - ddof, with ddof = 1.         *)

(* Program constants *)
MinSamples == 3
Ddof == 1
ZNum == 3
ZDen == 2

(* sum of the first k entries of a sequence of integers *)
RECURSIVE Sum(_, _)
Sum(s, k) == IF k = 0 THEN 0 ELSE s[k] + Sum(s, k - 1)

NotNa(prices) == {i \in DOMAIN prices : prices[i].kind = "float"}

(* the least common denominator of the first k prices *)
RECURSIVE LcmDen(_, _)
LcmDen(prices, k) ==
    IF k = 0 THEN 1
    ELSE LET l == LcmDen(prices, k - 1)
             d == prices[k].den
         IN  (l * d) \div GCD(l, d)

CommonDen(prices) == LcmDen(prices, Len(prices))

(* the prices that are not NaN as numerators over CommonDen, 0 in the *)
(* place of a NaN                                                     *)
Nums(prices) ==
    LET den == CommonDen(prices)
    IN  [i \in DOMAIN prices |->
            IF prices[i].kind = "float" THEN prices[i].num * (den \div prices[i].den) ELSE 0]

(* count, sum, and count^2 * the sum of squared deviations from mean(), *)
(* over the prices that are not NaN, in units of 1 / CommonDen          *)
Stats(prices) ==
    LET count == Cardinality(NotNa(prices))
        nums == Nums(prices)
        total == Sum(nums, Len(prices))
        dev == [i \in DOMAIN prices |->
                   IF prices[i].kind = "float" THEN count * nums[i] - total ELSE 0]
    IN  [count |-> count, total |-> total, dev |-> dev,
         sumsq |-> Sum([i \in DOMAIN prices |-> dev[i] * dev[i]], Len(prices))]

(* df['price'].std(): NaN, zero or positive *)
Std(st) ==
    IF st.count - Ddof <= 0 THEN "nan"
    ELSE IF st.sumsq = 0 THEN "zero" ELSE "positive"

(* a float holds a fraction exactly when its denominator is a power of 2 *)
RECURSIVE IsBinaryFraction(_)
IsBinaryFraction(den) == den = 1 \/ (den % 2 = 0 /\ IsBinaryFraction(den \div 2))

(* the rows whose z-score is 1.5 exactly: z^2 = dev^2 * (count - ddof) / sumsq *)
OnThreshold(prices) ==
    LET st == Stats(prices)
    IN  IF Std(st) # "positive" THEN {}
        ELSE {i \in NotNa(prices) :
                ZDen * ZDen * st.dev[i] * st.dev[i] * (st.count - Ddof)
                  = ZNum * ZNum * st.sumsq}

(* float arithmetic: mean, std and the division round when a price is no *)
(* binary fraction, and a z-score of 1.5 exactly can come out one ulp    *)
(* above it.  The sets of rows this can happen to.                       *)
Roundings(prices) ==
    IF \A i \in NotNa(prices) : IsBinaryFraction(prices[i].den)
    THEN {{}}
    ELSE SUBSET OnThreshold(prices)

(* variant: the deviation of the whole population (divisor count) *)
mask_validPopulation(prices, above) ==
    LET st == Stats(prices)
    IN  IF Std(st) # "positive" THEN {}
        ELSE {i \in NotNa(prices) :
                ZDen * ZDen * st.dev[i] * st.dev[i] * st.count
                  <= ZNum * ZNum * st.sumsq} \ above

(* variant: the comparison is the other way round *)
mask_validInverted(prices, above) ==
    LET st == Stats(prices)
    IN  IF Std(st) # "positive" THEN {}
        ELSE {i \in NotNa(prices) :
                ZDen * ZDen * st.dev[i] * st.dev[i] * (st.count - Ddof)
                  >= ZNum * ZNum * st.sumsq} \ above

(* df['z_score'].abs() <= 1.5, which is False for a NaN z-score and for *)
(* the rows whose z-score rounding has put above 1.5                    *)
mask_valid(prices, above) ==
    LET st == Stats(prices)
    IN  IF Std(st) # "positive" THEN {}
        ELSE {i \in NotNa(prices) :
                ZDen * ZDen * st.dev[i] * st.dev[i] * (st.count - Ddof)
                  <= ZNum * ZNum * st.sumsq} \ above

(* the rows of the frame picked by a mask, in order, as 1-based positions *)
Rows(prices, mask) ==
    LET Picked(i) == i \in mask
    IN  SelectSeq([i \in 1..Len(prices) |-> i], Picked)

(* df.index of the rows: positions counted from 0 *)
IndexList(rows) == [k \in 1..Len(rows) |-> rows[k] - 1]

(* Series.mean() of rows none of which is NaN *)
Mean(prices, rows) ==
    LET nums == Nums(prices)
    IN  Div(Sum([k \in 1..Len(rows) |-> nums[rows[k]]], Len(rows)),
            Len(rows) * CommonDen(prices))

(* variant: the sum is returned undivided *)
SumOverLenUndivided(prices) ==
    IF NotNa(prices) # DOMAIN prices THEN NaN
    ELSE Div(Sum(Nums(prices), Len(prices)), CommonDen(prices))

(* sum(prices) / len(prices) in Python floats *)
SumOverLen(prices) ==
    IF NotNa(prices) # DOMAIN prices THEN NaN
    ELSE Div(Sum(Nums(prices), Len(prices)), Len(prices) * CommonDen(prices))

(* variant: three samples still count as too few *)
TooFewInclusive(prices) == Len(prices) <= MinSamples

(* len(prices) < 3: not enough data for Z-Score *)
TooFew(prices) == Len(prices) < MinSamples

(* variant: the deviation is never compared with zero *)
StdIsZeroSkipped(prices) == FALSE

(* if df['price'].std() == 0 *)
StdIsZero(prices) == Std(Stats(prices)) = "zero"

(* variant: the mean of the kept prices is taken even when none is kept *)
FilteredUnchecked(prices, above) ==
    LET mask == mask_valid(prices, above)
        valid_prices == Rows(prices, mask)
        outlier_indices == IndexList(Rows(prices, DOMAIN prices \ mask))
    IN  <<IF valid_prices = <<>> THEN NaN ELSE Mean(prices, valid_prices), outlier_indices>>

(* lines 35-46: the z-score filter and what is returned after it *)
Filtered(prices, above) ==
    LET mask == mask_valid(prices, above)
        valid_prices == Rows(prices, mask)
        outlier_indices == IndexList(Rows(prices, DOMAIN prices \ mask))
    IN  IF valid_prices = <<>>
        THEN <<None, IndexList(Rows(prices, DOMAIN prices))>>
        ELSE <<Mean(prices, valid_prices), outlier_indices>>

(* the pair (consensus, outlier indices) the function returns, given the *)
(* rows whose z-score rounding puts above 1.5                            *)
calculate_consensus_price(prices, above) ==
    IF prices = <<>> THEN <<None, <<>>>>
    ELSE IF TooFew(prices) THEN <<SumOverLen(prices), <<>>>>
    ELSE IF StdIsZero(prices) THEN <<prices[1], <<>>>>
    ELSE Filtered(prices, above)

(* PriceFetcher.fetch_price, fetcher.py lines 64-99 *)

(* variant: only None is screened out of the results *)
IsPriceOrException(result) == result.kind # "None"

(* results that are neither an Exception nor None *)
IsPrice(result) == result.kind \in {"float", "nan"}

ValidRows(results) ==
    LET Kept(i) == IsPrice(results[i])
    IN  SelectSeq([i \in 1..Len(results) |-> i], Kept)

(* variant: the index in valid_prices is taken for the provider's index *)
SuspectsUnmapped(valid_prices, valid_indices, outlier_local_indices) ==
    [k \in 1..Len(outlier_local_indices) |->
        LET local_idx == outlier_local_indices[k]
        IN  [provider_name |-> providers[local_idx + 1].name,
             value |-> valid_prices[local_idx + 1]]]

(* lines 93-97: the provider and the value logged for each outlier *)
Suspects(valid_prices, valid_indices, outlier_local_indices) ==
    [k \in 1..Len(outlier_local_indices) |->
        LET local_idx == outlier_local_indices[k]
            provider_idx == valid_indices[local_idx + 1]
        IN  [provider_name |-> providers[provider_idx + 1].name,
             value |-> valid_prices[local_idx + 1]]]

(* variant: with no price 0.0 is returned in the place of None *)
NoPricesZero ==
    /\ pf' = [pf EXCEPT !.pc = "returned", !.ret = Float(0, 1)]
    /\ ccp' = ccp

(* lines 86-88: if not valid_prices: return None *)
NoPrices ==
    /\ pf' = [pf EXCEPT !.pc = "returned", !.ret = None]
    /\ ccp' = ccp

(* tasks built and asyncio.gather awaited *)
FetchPrice ==
    /\ pf.pc = "idle"
    /\ ccp.pc = "idle"
    /\ pf' = [pf EXCEPT !.pc = "gather",
                        !.results = [i \in 1..Len(providers) |-> Pending]]
    /\ UNCHANGED <<cacheVars, gp, providers, ccp>>

(* the get_price of provider i completes *)
GetPriceDone(i, o) ==
    /\ pf.pc = "gather"
    /\ pf.results[i] = Pending
    /\ o \in GetPrice(providers[i])
    /\ pf' = [pf EXCEPT !.results[i] = o]
    /\ UNCHANGED <<cacheVars, gp, providers, ccp>>

(* the upstream of provider i never answers: get_price sets no timeout and *)
(* waits on                                                               *)
GetPriceHangs(i) ==
    /\ pf.pc = "gather"
    /\ pf.results[i] = Pending
    /\ NoTimeout(providers[i])
    /\ pf' = [pf EXCEPT !.results[i] = Hung]
    /\ UNCHANGED <<cacheVars, gp, providers, ccp>>

(* gather(return_exceptions=True) resumes once every get_price is done: *)
(* results partitioned, consensus computed, outliers logged             *)
Gathered ==
    LET results == pf.results
        rows == ValidRows(results)
        valid_prices == [k \in 1..Len(rows) |-> results[rows[k]]]
        valid_indices == IndexList(rows)
    IN  /\ pf.pc = "gather"
        /\ \A i \in DOMAIN results : results[i].kind \notin {"pending", "hung"}
        /\ IF valid_prices = <<>>
           THEN NoPrices
           ELSE \E above \in Roundings(valid_prices) :
                  LET cc == calculate_consensus_price(valid_prices, above)
                  IN  /\ ccp' = [pc |-> "returned", prices |-> valid_prices,
                                 above |-> above, ret |-> cc]
                      /\ pf' = [pf EXCEPT !.pc = "returned",
                                          !.valid_prices = valid_prices,
                                          !.valid_indices = valid_indices,
                                          !.suspects = Suspects(valid_prices, valid_indices, cc[2]),
                                          !.ret = cc[1]]
        /\ UNCHANGED <<cacheVars, gp, providers>>

(* calculate_consensus_price called on a list of its own *)
PriceLists ==
    UNION {[1..n -> Readings] \cup [1..n -> DecimalReadings] : n \in 0..MaxProviders}

CallConsensus ==
    /\ pf.pc = "idle"
    /\ ccp.pc = "idle"
    /\ \E prices \in PriceLists :
          \E above \in Roundings(prices) :
              ccp' = [pc |-> "returned", prices |-> prices, above |-> above,
                      ret |-> calculate_consensus_price(prices, above)]
    /\ UNCHANGED <<cacheVars, gp, providers, pf>>

(* the price engine on its own: the cache is not in front of it *)
InitPrices ==
    /\ clock = 0
    /\ func = "fetch_stock_price_upstream"
    /\ ttl = UpstreamTtl
    /\ grace = UpstreamGrace
    /\ store = [k \in Keys |-> NoEntry]
    /\ call = [i \in Calls |-> IdleCall]
    /\ fac = [t \in Tasks |-> IdleTask]
    /\ providers \in ProviderLists
    /\ pf = IdleFetch
    /\ ccp = IdleConsensus
    /\ gp = IdleGetPrice

NextPrices ==
    \/ FetchPrice
    \/ \E i \in 1..Len(providers) : \E o \in GetPrice(providers[i]) : GetPriceDone(i, o)
    \/ \E i \in 1..Len(providers) : GetPriceHangs(i)
    \/ Gathered
    \/ CallConsensus

SpecPrices == InitPrices /\ [][NextPrices]_vars

(* The two network adapters on their own, each get_price against whatever *)
(* its upstream does                                                      *)
Completed(outcome, upstream) ==
    IF outcome.kind = "raise"
    THEN [pc |-> "raised", upstream |-> upstream, ret |-> None]
    ELSE [pc |-> "returned", upstream |-> upstream, ret |-> outcome.value]

YahooGetPrice(upstream) ==
    /\ gp["YahooProvider"].pc = "idle"
    /\ gp' = [gp EXCEPT !["YahooProvider"] =
                 Completed(YahooProvider_get_price(upstream), upstream)]
    /\ UNCHANGED <<cacheVars, priceVars>>

AlphaVantageGetPrice(response) ==
    /\ gp["AlphaVantageProvider"].pc = "idle"
    /\ gp' = [gp EXCEPT !["AlphaVantageProvider"] =
                 Completed(AlphaVantageProvider_get_price(response), response)]
    /\ UNCHANGED <<cacheVars, priceVars>>

NextProviders ==
    \/ \E upstream \in YahooUpstreams : YahooGetPrice(upstream)
    \/ \E response \in AlphaVantageResponses : AlphaVantageGetPrice(response)

InitProviders ==
    /\ InitPrices
    /\ providers = DefaultProviders

SpecProviders == InitProviders /\ [][NextProviders]_vars

-----------------------------------------------------------------------------
(* Vocabulary of the properties *)

(* the entry call i reads if its get is answered now, and its age for i *)
Entry(i) == RedisGet(KeyOf(i))

HasEntry(i) == Entry(i).kind = "entry"

EntryAge(i) == call[i].now - Entry(i).data.ts

Fg(i) == fac[<<i, "fg">>]

Bg(i) == fac[<<i, "bg">>]

(* the three ways call i can leave its get, seen across one step *)
TookFresh(i) ==
    /\ call'[i].pc = "returned"
    /\ fac' = fac
    /\ Fg(i).pc = "idle" /\ Bg(i).pc = "idle"

TookStale(i) ==
    /\ call'[i].pc = "returned"
    /\ fac'[<<i, "fg">>] = Fg(i) /\ Fg(i).pc = "idle"
    /\ Bg(i).pc = "idle" /\ fac'[<<i, "bg">>].pc = "func"
    /\ \A t \in Tasks : t[1] # i => fac'[t] = fac[t]

TookMiss(i) ==
    /\ call'[i].pc = "await"
    /\ Fg(i).pc = "idle" /\ fac'[<<i, "fg">>].pc = "func"
    /\ fac'[<<i, "bg">>] = Bg(i) /\ Bg(i).pc = "idle"
    /\ \A t \in Tasks : t[1] # i => fac'[t] = fac[t]

(* C1: a call that reads an entry of age in [ttl, ttl + grace) returns the *)
(* cached value in that very step, with func not yet run, and starts       *)
(* exactly one background fetch_and_cache and no foreground one.           *)
C1_StaleHitReturnsAndSchedulesOne ==
    [][\A i \in Calls :
         (GetOk(i) /\ HasEntry(i) /\ EntryAge(i) >= ttl /\ EntryAge(i) < ttl + grace)
         => (TookStale(i) /\ call'[i].ret = Entry(i).data.value /\ store' = store)]_vars

C1_Witness ==
    \E i \in Calls : call[i].pc = "returned" /\ Bg(i).pc = "func" /\ Fg(i).pc = "idle"

(* C2: a call that reads an entry of age < ttl returns the cached value,  *)
(* starts no fetch_and_cache at all, now or later, and leaves the store   *)
(* as it was.                                                             *)
C2_FreshHitRunsNothing ==
    [][\A i \in Calls :
         /\ (GetOk(i) /\ HasEntry(i) /\ EntryAge(i) < ttl)
            => (TookFresh(i) /\ call'[i].ret = Entry(i).data.value /\ store' = store)
         /\ \A m \in Modes :
              (call[i].pc = "returned" /\ fac[<<i, m>>].pc = "idle")
              => fac'[<<i, m>>].pc = "idle"]_vars

C2_Witness ==
    \E i \in Calls :
        /\ call[i].pc = "returned" /\ Fg(i).pc = "idle" /\ Bg(i).pc = "idle"
        /\ store[KeyOf(i)].kind = "entry"
        /\ call[i].ret = store[KeyOf(i)].data.value

(* C3: a call returns straight from its get only with an entry of age     *)
(* < ttl + grace; with no entry or an older one it awaits a foreground    *)
(* fetch_and_cache, and then returns what func returned or raises because *)
(* func raised.                                                           *)
C3_NeverServesExpired ==
    [][\A i \in Calls :
         /\ (call[i].pc = "get" /\ call'[i].pc = "returned")
            => (HasEntry(i) /\ EntryAge(i) < ttl + grace)
         /\ (GetOk(i) /\ (~HasEntry(i) \/ EntryAge(i) >= ttl + grace))
            => TookMiss(i)
         /\ (call[i].pc = "await" /\ call'[i].pc = "returned")
            => (Fg(i).pc = "set" /\ call'[i].ret = Fg(i).result)
         /\ (call[i].pc = "await" /\ call'[i].pc = "raised")
            => (Fg(i).pc = "func" /\ fac'[<<i, "fg">>].pc = "raised")]_vars

C3_Witness ==
    \E i \in Calls :
        /\ call[i].pc = "await" /\ Fg(i).pc = "set"
        /\ HasEntry(i) /\ EntryAge(i) >= ttl + grace
        /\ Entry(i).data.ts < Fg(i).timestamp

(* C4: when func raises in a foreground fetch_and_cache the call raises   *)
(* in that step, the store is untouched, and that task never writes.      *)
C4_ForegroundFailurePropagates ==
    [][\A i \in Calls :
         /\ (Fg(i).pc = "func" /\ fac'[<<i, "fg">>].pc = "raised")
            => (call[i].pc = "await" /\ call'[i].pc = "raised" /\ store' = store)
         /\ Fg(i).pc = "raised"
            => (fac'[<<i, "fg">>] = Fg(i) /\ call'[i].pc = "raised")]_vars

C4_Witness ==
    \E i \in Calls : call[i].pc = "raised" /\ Fg(i).pc = "raised"

(* C5: a foreground fetch_and_cache whose func yielded None never writes  *)
(* to the store and never makes its call return: the call is told of a    *)
(* failure.                                                               *)
C5_AbsentIsNeverCached ==
    [][\A i \in Calls :
         (Fg(i).pc = "set" /\ Fg(i).result = None)
         => (store' = store /\ call'[i].pc \in {"await", "raised"})]_vars

(* C6: when func raises in a background fetch_and_cache nothing else      *)
(* changes: the store and every call are as before; and while no refresh  *)
(* has succeeded, a later call that reads the entry at an age             *)
(* < ttl + grace returns the value the stale call returned.               *)
C6_BackgroundFailureIsSwallowed ==
    [][\A i \in Calls :
         /\ (Bg(i).pc = "func" /\ fac'[<<i, "bg">>].pc = "raised")
            => (store' = store /\ call' = call)
         /\ \A j \in Calls \ {i} :
              (/\ Bg(i).pc = "raised"
               /\ \A t \in Tasks : fac[t].pc # "done"
               /\ call[j].args = call[i].args
               /\ GetOk(j) /\ HasEntry(j) /\ EntryAge(j) < ttl + grace)
              => (call'[j].pc = "returned" /\ call'[j].ret = call[i].ret)]_vars

C6_Witness ==
    \E i \in Calls, j \in Calls :
        /\ i # j
        /\ call[i].pc = "returned" /\ Bg(i).pc = "raised"
        /\ \A t \in Tasks : fac[t].pc # "done"
        /\ call[j].pc = "returned" /\ Bg(j).pc = "func"
        /\ call[j].ret = call[i].ret

(* C7: a failed read makes the call take the miss path (one foreground    *)
(* fetch_and_cache, store untouched) even when a usable entry is there; a *)
(* failed write still returns what func returned; and a call raises only  *)
(* in a step in which its own func raised.                                *)
C7_StoreFailureIsNeverSurfaced ==
    [][\A i \in Calls :
         /\ (\E err \in {"connection", "decode"} : GetFailed(i, err))
            => (TookMiss(i) /\ store' = store)
         /\ SetFailed(i, "fg")
            => (call'[i].pc = "returned" /\ call'[i].ret = Fg(i).result)
         /\ (call[i].pc # "raised" /\ call'[i].pc = "raised")
            => (Fg(i).pc = "func" /\ fac'[<<i, "fg">>].pc = "raised")]_vars

C7_Witness ==
    \E i \in Calls :
        /\ call[i].pc = "await" /\ Fg(i).pc = "func"
        /\ HasEntry(i) /\ EntryAge(i) >= 0 /\ EntryAge(i) < ttl
        /\ \A t \in Tasks : fac[t].pc \in {"idle", "func"}

(* C8 as stated: every fetch_and_cache whose func returned leaves, when   *)
(* it ends, the entry (its timestamp, its result) with expiry             *)
(* ttl + grace + 60 under its key.                                        *)
C8_EverySuccessOverwrites ==
    [][\A i \in Calls, m \in Modes :
         (fac[<<i, m>>].pc = "set" /\ fac'[<<i, m>>].pc = "done")
         => store'[KeyOf(i)] =
              [kind |-> "entry",
               data |-> Serialize(<<fac[<<i, m>>].timestamp, fac[<<i, m>>].result>>),
               exp  |-> clock + ttl + grace + 60]]_vars

(* C8 amended: the timestamp is the time func returned; every             *)
(* fetch_and_cache whose redis set succeeds leaves that entry with expiry *)
(* ttl + grace + 60 and touches no other key; and an entry is readable    *)
(* for as long as its age is < ttl + grace.                               *)
C8_SuccessfulWriteOverwrites ==
    /\ [][\A i \in Calls, m \in Modes :
            /\ (fac[<<i, m>>].pc = "func" /\ fac'[<<i, m>>].pc = "set")
               => fac'[<<i, m>>].timestamp = clock
            /\ SetOk(i, m)
               => /\ store'[KeyOf(i)] =
                       [kind |-> "entry",
                        data |-> Serialize(<<fac[<<i, m>>].timestamp,
                                             fac[<<i, m>>].result>>),
                        exp  |-> clock + ttl + grace + 60]
                  /\ \A k \in Keys \ {KeyOf(i)} : store'[k] = store[k]]_vars
    /\ [](\A k \in Keys :
            (store[k].kind = "entry" /\ clock - store[k].data.ts < ttl + grace)
            => RedisGet(k) = store[k])

C8_Witness ==
    \E i \in Calls, m \in Modes :
        /\ fac[<<i, m>>].pc = "done"
        /\ store[KeyOf(i)].kind = "entry"
        /\ store[KeyOf(i)].data.ts >= 1
        /\ clock - store[KeyOf(i)].data.ts >= ttl
        /\ clock - store[KeyOf(i)].data.ts < ttl + grace

(* C9: with ttl = 60 and Redis answering, once call i has missed, run     *)
(* func and returned, a call j with the same arguments, alone with i and  *)
(* started less than ttl after i's timestamp, returns in its get step the *)
(* value i returned and starts no fetch_and_cache: func ran once for the  *)
(* two.                                                                   *)
C9_MissThenReadIsFresh ==
    [][\A i \in Calls, j \in Calls :
         (/\ i # j
          /\ ttl = UpstreamTtl
          /\ call[i].pc = "returned" /\ Fg(i).pc = "done" /\ Bg(i).pc = "idle"
          /\ call[j].args = call[i].args
          /\ HasEntry(j) => EntryAge(j) < ttl
          /\ clock < ttl + grace
          /\ \A k \in Calls \ {i, j} : call[k].pc = "idle"
          /\ GetOk(j))
         => (TookFresh(j) /\ call'[j].ret = call[i].ret)]_vars

C9_Witness ==
    \E i \in Calls, j \in Calls :
        /\ i # j
        /\ ttl = UpstreamTtl
        /\ call[i].pc = "returned" /\ Fg(i).pc = "done" /\ Bg(i).pc = "idle"
        /\ call[j].pc = "returned" /\ Fg(j).pc = "idle" /\ Bg(j).pc = "idle"
        /\ call[j].ret = call[i].ret
        /\ clock >= 1

(* C10: for an entry of age >= 0 exactly one of Fresh, Stale, Expired     *)
(* holds, and the call leaves its get by the branch of that class.        *)
Fresh(age)   == age < ttl
Stale(age)   == ttl <= age /\ age < ttl + grace
Expired(age) == age >= ttl + grace

C10_ClassificationIsAPartition ==
    [][\A i \in Calls :
         (GetOk(i) /\ HasEntry(i) /\ EntryAge(i) >= 0)
         => LET age == EntryAge(i)
            IN  /\ Cardinality({c \in {"Fresh", "Stale", "Expired"} :
                                  \/ c = "Fresh" /\ Fresh(age)
                                  \/ c = "Stale" /\ Stale(age)
                                  \/ c = "Expired" /\ Expired(age)}) = 1
                /\ Fresh(age) <=> TookFresh(i)
                /\ Stale(age) <=> TookStale(i)
                /\ Expired(age) <=> TookMiss(i)]_vars

C10_Witness ==
    \E i \in Calls, j \in Calls :
        /\ call[i].pc = "returned" /\ Fg(i).pc = "idle" /\ Bg(i).pc = "idle"
        /\ call[j].pc = "returned" /\ Bg(j).pc # "idle"
        /\ grace > 0 /\ ttl > 0

(* C30 as stated: while the cache is warmed, at most 5 executions of the  *)
(* upstream fetch are in flight, those of background refreshes included.  *)
C30_AtMostFiveFetchesInFlight ==
    Cardinality({t \in DOMAIN fac : fac[t].pc = "func"}) <= SemaphoreValue

(* the same call arguments: the same positional arguments and the same *)
(* value under every name                                              *)
SameArguments(i, j) ==
    /\ call[i].args = call[j].args
    /\ {call[i].kwargs[k] : k \in DOMAIN call[i].kwargs}
         = {call[j].kwargs[k] : k \in DOMAIN call[j].kwargs}

(* C21 as stated: two calls of the wrapped operation have the same cache  *)
(* key when their arguments are the same, the named ones in whatever      *)
(* order, and different keys when their arguments differ.                 *)
C21_SameArgumentsSameKey ==
    \A i, j \in Calls :
        (call[i].pc # "idle" /\ call[j].pc # "idle")
        => (SameArguments(i, j) <=> KeyOf(i) = KeyOf(j))

(* a fetch_and_cache task between its start and its end *)
InFlight(t) == fac[t].pc \in {"func", "set"}

SameKey(i, j) == KeyOf(i) = KeyOf(j)

(* C24: a call that reads a Stale entry while the refresh another call    *)
(* scheduled for the same key is still in flight schedules a refresh of   *)
(* its own, and the other one runs on untouched.                          *)
C24_RefreshesAreNotDeduplicated ==
    [][\A i \in Calls, j \in Calls :
         (/\ i # j
          /\ GetOk(i) /\ HasEntry(i) /\ EntryAge(i) >= ttl /\ EntryAge(i) < ttl + grace
          /\ call[j].pc # "idle" /\ SameKey(i, j) /\ InFlight(<<j, "bg">>))
         => (/\ Bg(i).pc = "idle" /\ fac'[<<i, "bg">>].pc = "func"
             /\ fac'[<<j, "bg">>] = Bg(j))]_vars

C24_Witness ==
    \A i \in Calls :
        /\ call[i].pc = "returned"
        /\ SameKey(i, 1)
        /\ Bg(i).pc = "func"
        /\ Fg(i).pc = "idle"

(* C25: while Redis answers, every fetch_and_cache that ends leaves under *)
(* its key the entry (its timestamp, its result), whatever timestamp the  *)
(* entry it replaces carries, and the store changes in no other way: the  *)
(* entry in the store is that of the write that completed last.           *)
C25_LastWriteWins ==
    [][/\ \A i \in Calls, m \in Modes :
            (fac[<<i, m>>].pc = "set" /\ fac'[<<i, m>>].pc = "done")
            => store'[KeyOf(i)].data =
                 Serialize(<<fac[<<i, m>>].timestamp, fac[<<i, m>>].result>>)
       /\ \A k \in Keys :
            store'[k] # store[k]
            => \E i \in Calls, m \in Modes :
                 /\ call[i].pc # "idle" /\ KeyOf(i) = k
                 /\ fac[<<i, m>>].pc = "set" /\ fac'[<<i, m>>].pc = "done"]_vars

(* two executions of func for one key have both written; the one that    *)
(* took its timestamp earlier wrote last                                 *)
C25_Witness ==
    \E t \in Tasks, u \in Tasks :
        /\ fac[t].pc = "done" /\ fac[u].pc = "done"
        /\ SameKey(t[1], u[1])
        /\ fac[t].timestamp < fac[u].timestamp
        /\ store[KeyOf(t[1])].data.ts = fac[t].timestamp

(* the tasks and the calls that have started *)
StartedTasks == {t \in Tasks : fac[t].pc # "idle"}

StartedCalls == {i \in Calls : call[i].pc # "idle"}

(* C26: a call starts at most one fetch_and_cache, the awaited one being  *)
(* the one of a call that waits; func has run at most once per call; and  *)
(* a fetch_and_cache whose func raised stays as it is: it is not run      *)
(* again.                                                                 *)
C26_AtMostOneExecutionPerCall ==
    /\ [](/\ \A i \in Calls :
               /\ Fg(i).pc = "idle" \/ Bg(i).pc = "idle"
               /\ call[i].pc \in {"idle", "get"} => (Fg(i).pc = "idle" /\ Bg(i).pc = "idle")
               /\ call[i].pc = "await" => Bg(i).pc = "idle"
           /\ Cardinality(StartedTasks) <= Cardinality(StartedCalls))
    /\ [][\A t \in Tasks :
            /\ fac[t].pc = "raised" => fac'[t] = fac[t]
            /\ (fac[t].pc # "func" /\ fac'[t].pc = "func")
               => (fac[t].pc = "idle" /\ call[t[1]].pc = "get")]_vars

C26_Witness ==
    \E i \in Calls, j \in Calls :
        /\ call[i].pc = "returned" /\ Bg(i).pc = "raised" /\ Fg(i).pc = "idle"
        /\ call[j].pc = "returned" /\ Fg(j).pc = "done" /\ Bg(j).pc = "idle"
        /\ SameKey(i, j)

(* the time an entry was written: redis counts its expiry from there *)
WrittenAt(k) == store[k].exp - ExpireTime

(* C29 as stated: the timestamp of the entry of a key never decreases.   *)
C29_TimestampNeverDecreases ==
    [][\A k \in Keys :
         (store[k].kind = "entry" /\ store'[k].kind = "entry")
         => store'[k].data.ts >= store[k].data.ts]_vars

(* C29 amended: the timestamp of an entry is never later than the time   *)
(* the entry was written, which is never later than now; and a write by  *)
(* a fetch_and_cache that took its timestamp no earlier than the entry   *)
(* it replaces was written does not lower the timestamp.                 *)
C29_TimestampOrderedUnlessOverlapping ==
    /\ [](\A k \in Keys :
            store[k].kind = "entry"
            => (store[k].data.ts <= WrittenAt(k) /\ WrittenAt(k) <= clock))
    /\ [][\A i \in Calls, m \in Modes :
            (/\ SetOk(i, m)
             /\ store[KeyOf(i)].kind = "entry"
             /\ fac[<<i, m>>].timestamp >= WrittenAt(KeyOf(i)))
            => (/\ store'[KeyOf(i)].data.ts = fac[<<i, m>>].timestamp
                /\ store'[KeyOf(i)].data.ts >= store[KeyOf(i)].data.ts)]_vars

(* two executions of func for one key have both written, and the entry  *)
(* is the one with the later timestamp, written after it was taken       *)
C29_Witness ==
    \E t \in Tasks, u \in Tasks :
        /\ fac[t].pc = "done" /\ fac[u].pc = "done"
        /\ SameKey(t[1], u[1])
        /\ fac[u].timestamp < fac[t].timestamp
        /\ store[KeyOf(t[1])].data.ts = fac[t].timestamp
        /\ WrittenAt(KeyOf(t[1])) > fac[t].timestamp

-----------------------------------------------------------------------------
(* Vocabulary of the properties of the price engine *)

(* a calculate_consensus_price activation has returned: its argument, the *)
(* consensus and the outlier indices it returned                          *)
Computed == ccp.pc = "returned"

Consensus == ccp.ret[1]

Outliers == ccp.ret[2]

AllFinite(prices) == \A i \in DOMAIN prices : prices[i].kind = "float"

AllEqual(prices) == \A i \in DOMAIN prices : prices[i] = prices[1]

(* the positions, counted from 0 and ascending, of the prices in a set of rows *)
IndicesOf(prices, rows) ==
    LET Picked(i) == i \in rows
        sel == SelectSeq([i \in 1..Len(prices) |-> i], Picked)
    IN  [k \in 1..Len(sel) |-> sel[k] - 1]

(* the arithmetic mean of the finite prices in a non-empty set of rows *)
MeanOf(prices, rows) ==
    LET nums == Nums(prices)
    IN  Div(Sum([i \in DOMAIN prices |-> IF i \in rows THEN nums[i] ELSE 0], Len(prices)),
            Cardinality(rows) * CommonDen(prices))

(* |x - mean| / sigma > 3/2 with sigma the population standard deviation *)
(* (divisor n) of finite prices: n^2 (x - mean)^2 * 4 * n > 9 * n^2 * sum *)
(* of squared deviations                                                  *)
PopulationOutliers(prices) ==
    LET n == Len(prices)
        total == Sum(Nums(prices), n)
        d == [i \in DOMAIN prices |-> n * Nums(prices)[i] - total]
        ss == Sum([i \in DOMAIN prices |-> d[i] * d[i]], n)
    IN  {i \in DOMAIN prices : 4 * d[i] * d[i] * n > 9 * ss}

(* C11 as stated: for three or more finite readings that are not all      *)
(* equal, the outliers returned are exactly the readings more than 1.5    *)
(* population standard deviations from the mean, and the consensus is the *)
(* mean of the others.                                                    *)
C11_PopulationZScoreFilter ==
    (Computed /\ Len(ccp.prices) >= 3 /\ AllFinite(ccp.prices) /\ ~AllEqual(ccp.prices))
    => LET flagged == PopulationOutliers(ccp.prices)
       IN  /\ Outliers = IndicesOf(ccp.prices, flagged)
           /\ Consensus = MeanOf(ccp.prices, DOMAIN ccp.prices \ flagged)

(* C12 as stated: of four finite readings three of which are equal and    *)
(* the fourth different, the different one is the one outlier returned    *)
(* and the consensus is the value of the three.                           *)
C12_OneInFourIsFlagged ==
    \A odd \in 1..4 :
        (/\ Computed /\ Len(ccp.prices) = 4 /\ AllFinite(ccp.prices)
         /\ \A i, j \in (1..4) \ {odd} : ccp.prices[i] = ccp.prices[j]
         /\ \A i \in (1..4) \ {odd} : ccp.prices[i] # ccp.prices[odd])
        => /\ Outliers = <<odd - 1>>
           /\ \A i \in (1..4) \ {odd} : Consensus = ccp.prices[i]

(* C13: on [100, 101, 99] the function is past the fewer-than-3 return and *)
(* the zero-deviation return, keeps all three readings, and returns        *)
(* (100, []).                                                              *)
C13_ThreeCloseReadings ==
    (Computed /\ ccp.prices = <<Float(100, 1), Float(101, 1), Float(99, 1)>>)
    => /\ ~TooFew(ccp.prices)
       /\ Std(Stats(ccp.prices)) = "positive"
       /\ mask_valid(ccp.prices, ccp.above) = 1..3
       /\ Outliers = <<>>
       /\ Consensus = Float(100, 1)

C13_Witness ==
    /\ Computed
    /\ ccp.prices = <<Float(100, 1), Float(101, 1), Float(99, 1)>>
    /\ ccp.ret = <<Float(100, 1), <<>>>>

(* C14: for one or two readings the function returns their arithmetic    *)
(* mean (NaN when one of them is NaN) and no outlier, however far apart  *)
(* they are: [100, 200] gives 150.                                       *)
C14_FewerThanThreeIsTheMean ==
    (Computed /\ Len(ccp.prices) \in {1, 2})
    => /\ Outliers = <<>>
       /\ AllFinite(ccp.prices) => Consensus = MeanOf(ccp.prices, DOMAIN ccp.prices)
       /\ ~AllFinite(ccp.prices) => Consensus = NaN
       /\ ccp.prices = <<Float(100, 1), Float(200, 1)>> => Consensus = Float(150, 1)

C14_Witness ==
    /\ Computed
    /\ ccp.prices = <<Float(99, 1), Float(1000, 1)>>
    /\ ccp.ret = <<Float(1099, 2), <<>>>>

(* the results of a finished gather that are a price, in provider order *)
ReturnedValues ==
    LET IsValue(r) == r # None /\ r # Exception
    IN  SelectSeq(pf.results, IsValue)

(* C15: whichever providers raise or return None, fetch_price never       *)
(* raises, and when it has returned the list handed to                    *)
(* calculate_consensus_price is the list of the values returned, in       *)
(* provider order (with no value the function is not called).             *)
C15_ProviderFailuresAreIsolated ==
    /\ pf.pc \in {"idle", "gather", "returned"}
    /\ pf.pc = "returned" =>
         /\ ReturnedValues # <<>> =>
              /\ ccp.pc = "returned"
              /\ ccp.prices = ReturnedValues
              /\ pf.valid_prices = ReturnedValues
              /\ pf.ret = Consensus
         /\ ReturnedValues = <<>> => ccp.pc = "idle"

C15_Witness ==
    /\ pf.pc = "returned"
    /\ \E i, j \in DOMAIN pf.results :
         /\ i < j
         /\ pf.results[i] = Exception
         /\ pf.results[j] = None
    /\ pf.results[Len(pf.results)].kind = "float"
    /\ Len(ccp.prices) >= 2
    /\ pf.ret.kind = "float"

(* a get_price completes or gather resumes *)
ProvidersProgress ==
    \/ Gathered
    \/ \E i \in 1..Len(providers) : \E o \in GetPrice(providers[i]) : GetPriceDone(i, o)

(* C16 as stated, as a condition on every state: while fetch_price waits  *)
(* in gather, a get_price can still complete or gather can resume.        *)
C16_EveryGetPriceCompletes == pf.pc = "gather" => ENABLED ProvidersProgress

(* C17: when every provider raised or returned None fetch_price returns   *)
(* None, with nothing logged as suspect; and calculate_consensus_price    *)
(* of the empty list returns (None, []).                                  *)
C17_NoValueGivesAbsent ==
    /\ (pf.pc = "returned" /\ \A i \in DOMAIN pf.results : pf.results[i] \in {None, Exception})
       => /\ pf.ret = None
          /\ pf.suspects = <<>>
    /\ (Computed /\ ccp.prices = <<>>) => ccp.ret = <<None, <<>>>>

C17_Witness ==
    /\ pf.pc = "returned"
    /\ Len(pf.results) >= 2
    /\ \A i \in DOMAIN pf.results : pf.results[i] \in {None, Exception}
    /\ \E i, j \in DOMAIN pf.results : pf.results[i] = None /\ pf.results[j] = Exception
    /\ pf.ret = None

Origin(local) ==
    CHOOSE i \in DOMAIN pf.results :
        /\ pf.results[i] # None /\ pf.results[i] # Exception
        /\ Cardinality({j \in 1..i : pf.results[j] # None /\ pf.results[j] # Exception})
             = local + 1

(* C19: when the filter keeps none of three or more readings the function *)
(* returns None with every index as outlier, and fetch_price returns None *)
(* and logs each provider that returned a value, in order, as suspect.    *)
C19_AllFlaggedGivesAbsent ==
    (Computed /\ Len(ccp.prices) >= 3 /\ ~StdIsZero(ccp.prices)
       /\ mask_valid(ccp.prices, ccp.above) = {})
    => /\ Consensus = None
       /\ Outliers = [k \in 1..Len(ccp.prices) |-> k - 1]
       /\ pf.pc = "returned" =>
            /\ pf.ret = None
            /\ Len(pf.suspects) = Len(ccp.prices)
            /\ \A k \in DOMAIN pf.suspects :
                 pf.suspects[k].provider_name = providers[Origin(k - 1)].name

C19_Witness ==
    /\ pf.pc = "returned"
    /\ Computed
    /\ Len(ccp.prices) >= 3
    /\ \E i \in DOMAIN ccp.prices : ccp.prices[i].kind = "float"
    /\ \E i \in DOMAIN pf.results : pf.results[i] = Exception
    /\ pf.ret = None
    /\ Len(pf.suspects) = Len(ccp.prices)

(* C20: each outlier fetch_price logs carries the name of the provider    *)
(* that returned the flagged value and that value, whichever providers    *)
(* before or between the valid ones raised or returned None.              *)
C20_OutliersNameTheirProvider ==
    (pf.pc = "returned" /\ Computed)
    => /\ Len(pf.suspects) = Len(Outliers)
       /\ \A k \in DOMAIN pf.suspects :
            /\ pf.suspects[k].provider_name = providers[Origin(Outliers[k])].name
            /\ pf.suspects[k].value = pf.results[Origin(Outliers[k])]
            /\ pf.suspects[k].value = ccp.prices[Outliers[k] + 1]

C20_Witness ==
    /\ pf.pc = "returned"
    /\ pf.results[1] = Exception
    /\ \E i \in DOMAIN pf.results : pf.results[i] = None
    /\ pf.ret.kind = "float"
    /\ Len(pf.suspects) = 1
    /\ pf.suspects[1].provider_name # providers[Outliers[1] + 1].name

(* C27: of a non-empty list of finite readings the function returns a    *)
(* float, never None: past the two early returns the filter keeps at      *)
(* least one reading, so not every index is returned as outlier.          *)
C27_FiniteReadingsGiveAValue ==
    (Computed /\ ccp.prices # <<>> /\ AllFinite(ccp.prices))
    => /\ Consensus.kind = "float"
       /\ Len(Outliers) < Len(ccp.prices)
       /\ (~TooFew(ccp.prices) /\ ~StdIsZero(ccp.prices))
          => mask_valid(ccp.prices, ccp.above) # {}

C27_Witness ==
    /\ Computed
    /\ Len(ccp.prices) >= 5
    /\ AllFinite(ccp.prices)
    /\ Len(Outliers) >= 1
    /\ Consensus.kind = "float"
    /\ Consensus = MeanOf(ccp.prices, mask_valid(ccp.prices, ccp.above))

(* row odd of four readings differs from the three others, which are equal *)
OddOneOut(prices, odd) ==
    /\ Len(prices) = 4
    /\ \A i, j \in (1..4) \ {odd} : prices[i] = prices[j]
    /\ \A i \in (1..4) \ {odd} : prices[i] # prices[odd]

AllBinaryFractions(prices) == \A i \in DOMAIN prices : IsBinaryFraction(prices[i].den)

-----------------------------------------------------------------------------
(* Vocabulary of the properties of the adapters *)

Yahoo == gp["YahooProvider"]

AlphaVantage == gp["AlphaVantageProvider"]

(* the AlphaVantage request was answered 200 with a JSON object *)
AnsweredJson == AlphaVantage.upstream.kind = "response" /\ AlphaVantage.upstream.body.kind = "json"

(* C22: when the payload carries the rate-limit note, AlphaVantage's      *)
(* get_price returns None, whatever else the payload holds, a price that  *)
(* parses included.                                                       *)
C22_RateLimitNoteGivesAbsent ==
    (AlphaVantage.pc # "idle" /\ AnsweredJson /\ AlphaVantage.upstream.body.note)
    => (AlphaVantage.pc = "returned" /\ AlphaVantage.ret = None)

C22_Witness ==
    /\ AlphaVantage.pc = "returned"
    /\ AnsweredJson
    /\ AlphaVantage.upstream.body.note
    /\ AlphaVantage.upstream.body.quote.kind = "object"
    /\ AlphaVantage.upstream.body.quote.price_str = Text("digits", 100)
    /\ AlphaVantage.ret = None

(* the upstream failed or sent a malformed payload: yfinance raised; the  *)
(* request got no answer, an error status, a body that is not JSON, a     *)
(* quote that is no object, or a price text that is not a number.         *)
YahooMalformed == Yahoo.upstream.kind = "raises"

AlphaVantageMalformed ==
    \/ AlphaVantage.upstream.kind = "error"
    \/ AlphaVantage.upstream.status >= 400
    \/ AlphaVantage.upstream.body.kind = "not_json"
    \/ AlphaVantage.upstream.body.quote.kind = "null"
    \/ AlphaVantage.upstream.body.quote.price_str.kind = "letters"

====
